---------------------------- MODULE Spec2Model ----------------------------
(***************************************************************************)
(* Job queue, worker loop and upload registry of the media processing API. *)
(*                                                                         *)
(* The key-value store is modelled by one variable per key family          *)
(* (job:<id>, job_queue, pending_jobs, ...), the shared disk by the two    *)
(* directories /disk/uploads and /disk/results.  The worker and the HTTP   *)
(* process are separate processes: every action below is one step of one  *)
(* of them, and steps of different processes interleave freely.            *)
(***************************************************************************)
EXTENDS Integers, FiniteSets, Sequences, TLC

(***************************************************************************)
(* Bounds of the model.                                                    *)
(***************************************************************************)
MaxJobs == 2
MaxPaths == 2
MaxUploads == 1
MaxTicks == 2
MaxRefCalls == 3
MaxLimit == 2
MaxProcs == 2

(***************************************************************************)
(* Program constants.                                                      *)
(***************************************************************************)
PRIORITY_HIGH == 10
PRIORITY_NORMAL == 50
PRIORITY_LOW == 100
ScoreMultiplier == 1000000
CompletedTTL == 28800
FailedTTL == 604800
UPLOAD_TTL_UNUSED == 10800
TTL_HOURS == 3
SecondsPerHour == 3600

Priorities == {PRIORITY_HIGH, PRIORITY_NORMAL, PRIORITY_LOW}

(* uuid4 job ids; their order stands for the lexicographic order of the   *)
(* uuid strings, which the sorted set uses among members of equal score.   *)
JobIds == 1..MaxJobs
(* Files of /disk/uploads.                                                 *)
Paths == 1..MaxPaths
UploadIds == 1..MaxUploads
(* Processes that call the upload registry.                                *)
Procs == 1..MaxProcs

(* Python's None for the numeric fields, absence for keys and files.       *)
None == -1
NotIn == None
NoFile == None
NoTTL == None
NoJob == [status |-> "absent"]
NoUpload == [status |-> "absent"]
NoError == "None"
NoResp == [code |-> 0]
NoCall == [op |-> "none", flip |-> FALSE]
NoRefOp == [pc |-> "idle"]
NoSweep == [pc |-> "idle"]
NoCreating == [pc |-> "idle"]
NoRefOps ==
    [procs |-> [p \in Procs |-> NoRefOp],
     inc |-> [u \in UploadIds |-> 0],
     dec |-> [u \in UploadIds |-> 0]]

CancelMsg == "Cancelado por usuario"
InputMissingMsg == "Archivo de entrada no encontrado"
NoOutputMsg == "No se genero el archivo de salida"
EngineMsg == "engine error"

(* The clock advances by one second or by the distance between the normal  *)
(* and the high priority band of the score.                                *)
TickSteps == {1, ScoreMultiplier * (PRIORITY_NORMAL - PRIORITY_HIGH)}

VARIABLES
    now,              \* wall clock read by datetime.utcnow()
    ticks,            \* number of clock advances so far
    jobs,             \* key job:<id> -> record
    job_ttl,          \* expiry of key job:<id>, in seconds
    job_queue,        \* ZSET job_queue: id -> score
    pending_jobs,     \* ZSET pending_jobs: id -> score
    processing_jobs,  \* SET processing_jobs
    completed_jobs,   \* ZSET completed_jobs: id -> score
    failed_jobs,      \* ZSET failed_jobs: id -> score
    uploads_dir,      \* /disk/uploads: path -> size
    written,          \* paths of /disk/uploads that have been written
    results_dir,      \* /disk/results: <job_id>_output.<ext> -> size
    uploads,          \* key upload:<id> -> record
    upload_ttl,       \* expiry of key upload:<id>, in seconds
    uploads_idx,      \* ZSET uploads
    running,          \* Worker.running
    w_pc,             \* position of the worker
    w_job,            \* job_id of Worker.run
    w_data,           \* job_data of Worker.process_job
    w_upd,            \* job_data of the worker's update_job_status call
    w_err,            \* str(e) of the exception process_job caught
    c_pc,             \* position of the cancel_job call in flight
    c_job,            \* its job_id
    c_data,           \* its job_data
    c_upd,            \* job_data of its update_job_status call
    c_ret,            \* what the last cancel_job call returned
    engine_calls,     \* media-engine invocations per job
    popped,           \* ids get_next_job returned, in order
    created,          \* ids create_job returned, in order
    ref_calls,        \* increment_ref / decrement_ref calls made so far
    resp,             \* answer of the last POST /jobs/create
    up_mtime,         \* /disk/uploads: path -> time of its last write
    res_mtime,        \* /disk/results: output file -> time of its last write
    last,             \* the last call of a query or maintenance operation
    ref_ops,          \* increment_ref / decrement_ref calls in flight and made
    sweep,            \* the cleanup sweep in progress, entry by entry
    creating          \* the create_job call in progress, command by command

store_vars == <<jobs, job_ttl, job_queue, pending_jobs, processing_jobs,
                completed_jobs, failed_jobs>>
queue_vars == <<store_vars, created>>
disk_vars == <<uploads_dir, written, results_dir>>
upload_vars == <<uploads, upload_ttl, uploads_idx, ref_calls>>
worker_vars == <<running, w_pc, w_job, w_data, w_upd, w_err, engine_calls, popped>>
cancel_vars == <<c_pc, c_job, c_data, c_upd, c_ret>>
clock_vars == <<now, ticks>>
vars == <<now, ticks, jobs, job_ttl, job_queue, pending_jobs, processing_jobs,
          completed_jobs, failed_jobs, uploads_dir, written, results_dir, uploads,
          upload_ttl, uploads_idx, running, w_pc, w_job, w_data, w_upd, w_err,
          c_pc, c_job, c_data, c_upd, c_ret, engine_calls, popped, created, ref_calls,
          resp, up_mtime, res_mtime, last, ref_ops, sweep, creating>>

Init ==
    /\ now = 0
    /\ ticks = 0
    /\ jobs = [j \in JobIds |-> NoJob]
    /\ job_ttl = [j \in JobIds |-> NoTTL]
    /\ job_queue = [j \in JobIds |-> NotIn]
    /\ pending_jobs = [j \in JobIds |-> NotIn]
    /\ processing_jobs = {}
    /\ completed_jobs = [j \in JobIds |-> NotIn]
    /\ failed_jobs = [j \in JobIds |-> NotIn]
    /\ uploads_dir = [f \in Paths |-> NoFile]
    /\ written = {}
    /\ results_dir = [j \in JobIds |-> NoFile]
    /\ uploads = [u \in UploadIds |-> NoUpload]
    /\ upload_ttl = [u \in UploadIds |-> NoTTL]
    /\ uploads_idx = [u \in UploadIds |-> NotIn]
    /\ running = TRUE
    /\ w_pc = "pop"
    /\ w_job = 0
    /\ w_data = NoJob
    /\ w_upd = NoJob
    /\ w_err = NoError
    /\ c_pc = "idle"
    /\ c_job = 0
    /\ c_data = NoJob
    /\ c_upd = NoJob
    /\ c_ret = "none"
    /\ engine_calls = [j \in JobIds |-> 0]
    /\ popped = <<>>
    /\ created = <<>>
    /\ ref_calls = 0
    /\ resp = NoResp
    /\ up_mtime = [f \in Paths |-> None]
    /\ res_mtime = [j \in JobIds |-> None]
    /\ last = NoCall
    /\ ref_ops = NoRefOps
    /\ sweep = NoSweep
    /\ creating = NoCreating

(***************************************************************************)
(* The clock.                                                              *)
(***************************************************************************)
Tick ==
    /\ ticks < MaxTicks
    /\ \E d \in TickSteps : now' = now + d
    /\ ticks' = ticks + 1
    /\ UNCHANGED <<queue_vars, disk_vars, upload_vars, worker_vars, cancel_vars, resp>>
    /\ UNCHANGED <<up_mtime, res_mtime, last, ref_ops, sweep, creating>>

(* One second passes.                                                      *)
TickSecond ==
    /\ ticks < MaxTicks
    /\ now' = now + 1
    /\ ticks' = ticks + 1
    /\ UNCHANGED <<queue_vars, disk_vars, upload_vars, worker_vars, cancel_vars, resp>>
    /\ UNCHANGED <<up_mtime, res_mtime, last, ref_ops, sweep, creating>>

(***************************************************************************)
(* QueueService.create_job                                                 *)
(***************************************************************************)
Score(priority, t) == priority * ScoreMultiplier + t

NewJob(priority, input_file, t) ==
    [status |-> "pending", priority |-> priority, created_at |-> t,
     started_at |-> None, completed_at |-> None, progress |-> 0,
     input_file |-> input_file, output_file |-> None, error |-> NoError]

create_job(j, priority, input_file) ==
    /\ jobs[j] = NoJob
    /\ jobs' = [jobs EXCEPT ![j] = NewJob(priority, input_file, now)]
    /\ job_ttl' = [job_ttl EXCEPT ![j] = NoTTL]
    /\ pending_jobs' = [pending_jobs EXCEPT ![j] = now]
    /\ job_queue' = [job_queue EXCEPT ![j] = Score(priority, now)]
    /\ created' = Append(created, j)
    /\ UNCHANGED <<processing_jobs, completed_jobs, failed_jobs>>

CreateJob ==
    \E j \in JobIds, p \in Priorities, f \in Paths :
        /\ create_job(j, p, f)
        /\ UNCHANGED <<clock_vars, disk_vars, upload_vars, worker_vars, cancel_vars, resp>>
        /\ UNCHANGED <<up_mtime, res_mtime, last, ref_ops, sweep, creating>>

(* A file name that starts with a uuid no one has drawn before.            *)
FreshPaths ==
    {f \in Paths : f \notin written /\ \A j \in JobIds : jobs[j] = NoJob \/ jobs[j].input_file # f}

(* POST /video/extraer-audio: the upload is written to a fresh file and a  *)
(* job of normal priority is created for it.                               *)
ExtractAudio ==
    \E j \in JobIds, f \in FreshPaths :
        /\ uploads_dir' = [uploads_dir EXCEPT ![f] = 1]
        /\ written' = written \cup {f}
        /\ create_job(j, PRIORITY_NORMAL, f)
        /\ UNCHANGED <<clock_vars, results_dir, upload_vars, worker_vars, cancel_vars, resp>>
        /\ up_mtime' = [up_mtime EXCEPT ![f] = now]
        /\ UNCHANGED <<res_mtime, last, ref_ops, sweep, creating>>

(***************************************************************************)
(* QueueService.get_next_job: ZPOPMIN takes the member of lowest score,    *)
(* and among members of equal score the lexicographically first one.       *)
(***************************************************************************)
Members(zset) == {j \in DOMAIN zset : zset[j] # NotIn}

ZFirst(zset) ==
    CHOOSE j \in Members(zset) :
        \A k \in Members(zset) :
            \/ zset[j] < zset[k]
            \/ (zset[j] = zset[k] /\ j <= k)

get_next_job == ZFirst(job_queue)

(***************************************************************************)
(* QueueService.update_job_status reads the record, changes it and the     *)
(* indices, and writes it back: UpdatedJob is the record it writes,        *)
(* UpdateWrite the writes, from the record jd it read.                     *)
(***************************************************************************)
Terminal == {"completed", "failed"}

(* Faulty variant: a terminal update keeps the completed_at it read.       *)
UpdatedJob_NoCompletedAt(jd, status, progress, output_file, error, t) ==
    LET a == [jd EXCEPT !.status = status]
        b == IF progress # None THEN [a EXCEPT !.progress = progress] ELSE a
        c == IF status = "processing" /\ b.started_at = None
                THEN [b EXCEPT !.started_at = t] ELSE b
        d == IF status \in Terminal
                THEN [c EXCEPT !.progress = IF status = "completed" THEN 100 ELSE c.progress]
                ELSE c
    IN  IF status = "completed" THEN [d EXCEPT !.output_file = output_file]
        ELSE IF status = "failed" THEN [d EXCEPT !.error = error]
        ELSE d

UpdatedJob(jd, status, progress, output_file, error, t) ==
    LET a == [jd EXCEPT !.status = status]
        b == IF progress # None THEN [a EXCEPT !.progress = progress] ELSE a
        c == IF status = "processing" /\ b.started_at = None
                THEN [b EXCEPT !.started_at = t] ELSE b
        d == IF status \in Terminal
                THEN [c EXCEPT !.completed_at = t,
                               !.progress = IF status = "completed" THEN 100 ELSE c.progress]
                ELSE c
    IN  IF status = "completed" THEN [d EXCEPT !.output_file = output_file]
        ELSE IF status = "failed" THEN [d EXCEPT !.error = error]
        ELSE d

(* EXPIRE sets the key's time to live; a plain SET discards it.            *)
KeyExpire(ttl, j, seconds) == [ttl EXCEPT ![j] = seconds]
KeySet(ttl, j) == [ttl EXCEPT ![j] = NoTTL]
KeyPersist(ttl, j) == [ttl EXCEPT ![j] = NoTTL]

(* Faulty variant: a terminal update leaves the id in processing_jobs.     *)
UpdateWrite_NoSrem(j, jd, status, progress, output_file, error) ==
    LET starts == status = "processing" /\ jd.started_at = None
        expired == IF status = "completed" THEN KeyExpire(job_ttl, j, CompletedTTL)
                   ELSE IF status = "failed" THEN KeyExpire(job_ttl, j, FailedTTL)
                   ELSE job_ttl
    IN  /\ pending_jobs' = IF starts THEN [pending_jobs EXCEPT ![j] = NotIn]
                           ELSE pending_jobs
        /\ processing_jobs' = IF starts THEN processing_jobs \cup {j}
                              ELSE processing_jobs
        /\ completed_jobs' = IF status = "completed"
                                THEN [completed_jobs EXCEPT ![j] = now]
                                ELSE completed_jobs
        /\ failed_jobs' = IF status = "failed"
                             THEN [failed_jobs EXCEPT ![j] = now]
                             ELSE failed_jobs
        /\ job_ttl' = KeySet(expired, j)
        /\ jobs' = [jobs EXCEPT ![j] = UpdatedJob(jd, status, progress, output_file, error, now)]

UpdateWrite(j, jd, status, progress, output_file, error) ==
    LET starts == status = "processing" /\ jd.started_at = None
        expired == IF status = "completed" THEN KeyExpire(job_ttl, j, CompletedTTL)
                   ELSE IF status = "failed" THEN KeyExpire(job_ttl, j, FailedTTL)
                   ELSE job_ttl
    IN  /\ pending_jobs' = IF starts THEN [pending_jobs EXCEPT ![j] = NotIn]
                           ELSE pending_jobs
        /\ processing_jobs' = IF starts THEN processing_jobs \cup {j}
                              ELSE IF status \in Terminal THEN processing_jobs \ {j}
                              ELSE processing_jobs
        /\ completed_jobs' = IF status = "completed"
                                THEN [completed_jobs EXCEPT ![j] = now]
                                ELSE completed_jobs
        /\ failed_jobs' = IF status = "failed"
                             THEN [failed_jobs EXCEPT ![j] = now]
                             ELSE failed_jobs
        /\ job_ttl' = KeySet(expired, j)
        /\ jobs' = [jobs EXCEPT ![j] = UpdatedJob(jd, status, progress, output_file, error, now)]

(***************************************************************************)
(* UploadService.decrement_ref                                             *)
(***************************************************************************)
DecrementedUpload(ud) == [ud EXCEPT !.ref_count = ud.ref_count - 1]

decrement_ref(u, auto_delete) ==
    IF uploads[u] = NoUpload
    THEN UNCHANGED <<uploads, upload_ttl, uploads_idx, uploads_dir>>
    ELSE LET ud == DecrementedUpload(uploads[u])
         IN  IF auto_delete /\ ud.ref_count <= 0
             THEN /\ uploads_dir' = [uploads_dir EXCEPT ![ud.file_path] = NoFile]
                  /\ uploads' = [uploads EXCEPT ![u] = NoUpload]
                  /\ upload_ttl' = [upload_ttl EXCEPT ![u] = NoTTL]
                  /\ uploads_idx' = [uploads_idx EXCEPT ![u] = NotIn]
             ELSE /\ uploads' = [uploads EXCEPT ![u] = ud]
                  /\ upload_ttl' = KeySet(upload_ttl, u)
                  /\ UNCHANGED <<uploads_idx, uploads_dir>>

(***************************************************************************)
(* Worker.run and Worker.process_job                                       *)
(***************************************************************************)
(* job_data.get("upload_id"): create_job writes no such field.             *)
UploadIdOf(jd) == IF "upload_id" \in DOMAIN jd THEN jd.upload_id ELSE None

(* Faulty variant: the input file is removed for every job.                *)
ReleaseInput_Legacy(jd) ==
    /\ uploads_dir' = [uploads_dir EXCEPT ![jd.input_file] = NoFile]
    /\ UNCHANGED <<uploads, upload_ttl, uploads_idx>>

(* End of process_job: the upload's reference is dropped, or, for a job    *)
(* without upload_id, the input file is removed.                           *)
ReleaseInput(jd) ==
    IF UploadIdOf(jd) # None
    THEN decrement_ref(UploadIdOf(jd), FALSE)
    ELSE /\ uploads_dir' = [uploads_dir EXCEPT ![jd.input_file] = NoFile]
         /\ UNCHANGED <<uploads, upload_ttl, uploads_idx>>

(* Faulty variant: the worker reads the first id of job_queue and leaves   *)
(* it there.                                                               *)
WorkerPop_NoRemove ==
    /\ w_pc = "pop"
    /\ running
    /\ Members(job_queue) # {}
    /\ LET j == get_next_job
       IN  /\ job_queue' = job_queue
           /\ w_job' = j
           /\ popped' = Append(popped, j)
    /\ w_pc' = "fetch"
    /\ UNCHANGED <<jobs, job_ttl, pending_jobs, processing_jobs, completed_jobs, failed_jobs>>
    /\ UNCHANGED <<clock_vars, disk_vars, upload_vars, cancel_vars, resp, created>>
    /\ UNCHANGED <<running, w_data, w_upd, w_err, engine_calls>>
    /\ UNCHANGED <<up_mtime, res_mtime, last, ref_ops, sweep, creating>>

WorkerPop ==
    /\ w_pc = "pop"
    /\ running
    /\ Members(job_queue) # {}
    /\ LET j == get_next_job
       IN  /\ job_queue' = [job_queue EXCEPT ![j] = NotIn]
           /\ w_job' = j
           /\ popped' = Append(popped, j)
    /\ w_pc' = "fetch"
    /\ UNCHANGED <<jobs, job_ttl, pending_jobs, processing_jobs, completed_jobs, failed_jobs>>
    /\ UNCHANGED <<clock_vars, disk_vars, upload_vars, cancel_vars, resp, created>>
    /\ UNCHANGED <<running, w_data, w_upd, w_err, engine_calls>>
    /\ UNCHANGED <<up_mtime, res_mtime, last, ref_ops, sweep, creating>>

WorkerFetch ==
    /\ w_pc = "fetch"
    /\ w_data' = jobs[w_job]
    /\ w_pc' = IF jobs[w_job] = NoJob THEN "pop" ELSE "mark_read"
    /\ UNCHANGED <<clock_vars, queue_vars, disk_vars, upload_vars, cancel_vars, resp>>
    /\ UNCHANGED <<running, w_job, w_upd, w_err, engine_calls, popped>>
    /\ UNCHANGED <<up_mtime, res_mtime, last, ref_ops, sweep, creating>>

(* update_job_status(job_id, "processing", progress=0)                     *)
WorkerMarkRead ==
    /\ w_pc = "mark_read"
    /\ w_upd' = jobs[w_job]
    /\ w_pc' = IF jobs[w_job] = NoJob THEN "check_input" ELSE "mark_write"
    /\ UNCHANGED <<clock_vars, queue_vars, disk_vars, upload_vars, cancel_vars, resp>>
    /\ UNCHANGED <<running, w_job, w_data, w_err, engine_calls, popped>>
    /\ UNCHANGED <<up_mtime, res_mtime, last, ref_ops, sweep, creating>>

WorkerMarkWrite ==
    /\ w_pc = "mark_write"
    /\ UpdateWrite(w_job, w_upd, "processing", 0, None, NoError)
    /\ w_pc' = "check_input"
    /\ w_upd' = NoJob
    /\ UNCHANGED <<job_queue, created>>
    /\ UNCHANGED <<clock_vars, disk_vars, upload_vars, cancel_vars, resp>>
    /\ UNCHANGED <<running, w_job, w_data, w_err, engine_calls, popped>>
    /\ UNCHANGED <<up_mtime, res_mtime, last, ref_ops, sweep, creating>>

(* Faulty variant: the input file is not looked for.                       *)
WorkerCheckInput_NoCheck ==
    /\ w_pc = "check_input"
    /\ w_pc' = "engine"
    /\ w_err' = w_err
    /\ UNCHANGED <<clock_vars, queue_vars, disk_vars, upload_vars, cancel_vars, resp>>
    /\ UNCHANGED <<running, w_job, w_data, w_upd, engine_calls, popped>>
    /\ UNCHANGED <<up_mtime, res_mtime, last, ref_ops, sweep, creating>>

WorkerCheckInput ==
    /\ w_pc = "check_input"
    /\ IF uploads_dir[w_data.input_file] = NoFile
       THEN w_pc' = "fail_read" /\ w_err' = InputMissingMsg
       ELSE w_pc' = "engine" /\ w_err' = w_err
    /\ UNCHANGED <<clock_vars, queue_vars, disk_vars, upload_vars, cancel_vars, resp>>
    /\ UNCHANGED <<running, w_job, w_data, w_upd, engine_calls, popped>>
    /\ UNCHANGED <<up_mtime, res_mtime, last, ref_ops, sweep, creating>>

(* The media-engine call: it writes the output file (possibly an empty     *)
(* one) and returns, returns without an output file, or raises; it can     *)
(* only succeed while its input file is there.                             *)
EngineOutcomes == {"output", "empty_output", "no_output", "raise"}

WorkerEngine ==
    /\ w_pc = "engine"
    /\ engine_calls' = [engine_calls EXCEPT ![w_job] = @ + 1]
    /\ \E outcome \in EngineOutcomes :
        /\ outcome # "raise" => uploads_dir[w_data.input_file] # NoFile
        /\ results_dir' = IF outcome = "output" THEN [results_dir EXCEPT ![w_job] = 1]
                          ELSE IF outcome = "empty_output" THEN [results_dir EXCEPT ![w_job] = 0]
                          ELSE results_dir
        /\ IF outcome = "raise"
           THEN w_pc' = "fail_read" /\ w_err' = EngineMsg
           ELSE w_pc' = "check_output" /\ w_err' = w_err
    /\ UNCHANGED <<clock_vars, queue_vars, uploads_dir, written, upload_vars, cancel_vars, resp>>
    /\ UNCHANGED <<running, w_job, w_data, w_upd, popped>>
    /\ res_mtime' = IF results_dir'[w_job] # results_dir[w_job]
                     THEN [res_mtime EXCEPT ![w_job] = now] ELSE res_mtime
    /\ UNCHANGED <<up_mtime, last, ref_ops, sweep, creating>>

WorkerCheckOutput ==
    /\ w_pc = "check_output"
    /\ IF results_dir[w_job] = NoFile
       THEN w_pc' = "fail_read" /\ w_err' = NoOutputMsg
       ELSE w_pc' = "done_read" /\ w_err' = w_err
    /\ UNCHANGED <<clock_vars, queue_vars, disk_vars, upload_vars, cancel_vars, resp>>
    /\ UNCHANGED <<running, w_job, w_data, w_upd, engine_calls, popped>>
    /\ UNCHANGED <<up_mtime, res_mtime, last, ref_ops, sweep, creating>>

(* update_job_status(job_id, "completed", progress=100, output_file=...)   *)
WorkerDoneRead ==
    /\ w_pc = "done_read"
    /\ w_upd' = jobs[w_job]
    /\ w_pc' = IF jobs[w_job] = NoJob THEN "release" ELSE "done_write"
    /\ UNCHANGED <<clock_vars, queue_vars, disk_vars, upload_vars, cancel_vars, resp>>
    /\ UNCHANGED <<running, w_job, w_data, w_err, engine_calls, popped>>
    /\ UNCHANGED <<up_mtime, res_mtime, last, ref_ops, sweep, creating>>

WorkerDoneWrite ==
    /\ w_pc = "done_write"
    /\ UpdateWrite(w_job, w_upd, "completed", 100, w_job, NoError)
    /\ w_pc' = "release"
    /\ w_upd' = NoJob
    /\ UNCHANGED <<job_queue, created>>
    /\ UNCHANGED <<clock_vars, disk_vars, upload_vars, cancel_vars, resp>>
    /\ UNCHANGED <<running, w_job, w_data, w_err, engine_calls, popped>>
    /\ UNCHANGED <<up_mtime, res_mtime, last, ref_ops, sweep, creating>>

(* update_job_status(job_id, "failed", error=str(e))                       *)
WorkerFailRead ==
    /\ w_pc = "fail_read"
    /\ w_upd' = jobs[w_job]
    /\ w_pc' = IF jobs[w_job] = NoJob THEN "release" ELSE "fail_write"
    /\ UNCHANGED <<clock_vars, queue_vars, disk_vars, upload_vars, cancel_vars, resp>>
    /\ UNCHANGED <<running, w_job, w_data, w_err, engine_calls, popped>>
    /\ UNCHANGED <<up_mtime, res_mtime, last, ref_ops, sweep, creating>>

(* Faulty variant: the except branch of process_job does not mark the job failed.  *)
WorkerFailWrite_NoUpdate ==
    /\ w_pc = "fail_write"
    /\ w_pc' = "release"
    /\ w_upd' = NoJob
    /\ UNCHANGED <<clock_vars, queue_vars, disk_vars, upload_vars, cancel_vars, resp>>
    /\ UNCHANGED <<running, w_job, w_data, w_err, engine_calls, popped>>
    /\ UNCHANGED <<up_mtime, res_mtime, last, ref_ops, sweep, creating>>

WorkerFailWrite ==
    /\ w_pc = "fail_write"
    /\ UpdateWrite(w_job, w_upd, "failed", None, None, w_err)
    /\ w_pc' = "release"
    /\ w_upd' = NoJob
    /\ UNCHANGED <<job_queue, created>>
    /\ UNCHANGED <<clock_vars, disk_vars, upload_vars, cancel_vars, resp>>
    /\ UNCHANGED <<running, w_job, w_data, w_err, engine_calls, popped>>
    /\ UNCHANGED <<up_mtime, res_mtime, last, ref_ops, sweep, creating>>

WorkerRelease ==
    /\ w_pc = "release"
    /\ ReleaseInput(w_data)
    /\ w_pc' = "pop"
    /\ w_job' = 0
    /\ w_data' = NoJob
    /\ w_err' = NoError
    /\ UNCHANGED <<clock_vars, queue_vars, written, results_dir, ref_calls, cancel_vars, resp>>
    /\ UNCHANGED <<running, w_upd, engine_calls, popped>>
    /\ UNCHANGED <<up_mtime, res_mtime, last, ref_ops, sweep, creating>>

Worker ==
    \/ WorkerPop
    \/ WorkerFetch
    \/ WorkerMarkRead
    \/ WorkerMarkWrite
    \/ WorkerCheckInput
    \/ WorkerEngine
    \/ WorkerCheckOutput
    \/ WorkerDoneRead
    \/ WorkerDoneWrite
    \/ WorkerFailRead
    \/ WorkerFailWrite
    \/ WorkerRelease


(***************************************************************************)
(* The HTTP handlers stream the uploaded bytes to a file of /disk/uploads  *)
(* whose name starts with a fresh uuid.                                    *)
(***************************************************************************)
SaveFile ==
    \E f \in FreshPaths :
        /\ uploads_dir' = [uploads_dir EXCEPT ![f] = 1]
        /\ written' = written \cup {f}
        /\ UNCHANGED <<clock_vars, queue_vars, results_dir, upload_vars, worker_vars, cancel_vars, resp>>
        /\ up_mtime' = [up_mtime EXCEPT ![f] = now]
        /\ UNCHANGED <<res_mtime, last, ref_ops, sweep, creating>>

(***************************************************************************)
(* QueueService.cancel_job                                                 *)
(***************************************************************************)
(* Faulty variant: the guard of line 253 dropped, so that every job that is not    *)
(* processing is cancelled.                                                *)
CancelAllowed_NotProcessing(status) == status # "processing"

CancelAllowed(status) == status = "pending"

CancelStart ==
    /\ c_pc = "idle"
    /\ \E j \in JobIds :
        IF jobs[j] # NoJob /\ jobs[j].status # "processing" /\ CancelAllowed(jobs[j].status)
        THEN /\ c_pc' = "zrem"
             /\ c_job' = j
             /\ c_data' = jobs[j]
             /\ c_ret' = "none"
        ELSE /\ c_pc' = "idle"
             /\ c_job' = j
             /\ c_data' = NoJob
             /\ c_ret' = "false"
    /\ UNCHANGED <<clock_vars, queue_vars, disk_vars, upload_vars, worker_vars, resp, c_upd>>
    /\ UNCHANGED <<up_mtime, res_mtime, last, ref_ops, sweep, creating>>

(* Faulty variant: the id is taken out of pending_jobs only.                *)
CancelZrem_KeepsQueue ==
    /\ c_pc = "zrem"
    /\ job_queue' = job_queue
    /\ pending_jobs' = [pending_jobs EXCEPT ![c_job] = NotIn]
    /\ c_pc' = "upd_read"
    /\ UNCHANGED <<jobs, job_ttl, processing_jobs, completed_jobs, failed_jobs, created>>
    /\ UNCHANGED <<clock_vars, disk_vars, upload_vars, worker_vars, resp>>
    /\ UNCHANGED <<c_job, c_data, c_upd, c_ret>>
    /\ UNCHANGED <<up_mtime, res_mtime, last, ref_ops, sweep, creating>>

CancelZrem ==
    /\ c_pc = "zrem"
    /\ job_queue' = [job_queue EXCEPT ![c_job] = NotIn]
    /\ pending_jobs' = [pending_jobs EXCEPT ![c_job] = NotIn]
    /\ c_pc' = "upd_read"
    /\ UNCHANGED <<jobs, job_ttl, processing_jobs, completed_jobs, failed_jobs, created>>
    /\ UNCHANGED <<clock_vars, disk_vars, upload_vars, worker_vars, resp>>
    /\ UNCHANGED <<c_job, c_data, c_upd, c_ret>>
    /\ UNCHANGED <<up_mtime, res_mtime, last, ref_ops, sweep, creating>>

(* update_job_status(job_id, "failed", error="Cancelado por usuario")      *)
CancelUpdRead ==
    /\ c_pc = "upd_read"
    /\ c_upd' = jobs[c_job]
    /\ c_pc' = IF jobs[c_job] = NoJob THEN "remove" ELSE "upd_write"
    /\ UNCHANGED <<clock_vars, queue_vars, disk_vars, upload_vars, worker_vars, resp>>
    /\ UNCHANGED <<c_job, c_data, c_ret>>
    /\ UNCHANGED <<up_mtime, res_mtime, last, ref_ops, sweep, creating>>

CancelUpdWrite ==
    /\ c_pc = "upd_write"
    /\ UpdateWrite(c_job, c_upd, "failed", None, None, CancelMsg)
    /\ c_pc' = "remove"
    /\ c_upd' = NoJob
    /\ UNCHANGED <<job_queue, created>>
    /\ UNCHANGED <<clock_vars, disk_vars, upload_vars, worker_vars, resp>>
    /\ UNCHANGED <<c_job, c_data, c_ret>>
    /\ UNCHANGED <<up_mtime, res_mtime, last, ref_ops, sweep, creating>>

CancelRemove ==
    /\ c_pc = "remove"
    /\ uploads_dir' = [uploads_dir EXCEPT ![c_data.input_file] = NoFile]
    /\ c_ret' = "true"
    /\ c_pc' = "idle"
    /\ c_data' = NoJob
    /\ UNCHANGED <<clock_vars, queue_vars, written, results_dir, upload_vars, worker_vars, resp>>
    /\ UNCHANGED <<c_job, c_upd>>
    /\ UNCHANGED <<up_mtime, res_mtime, last, ref_ops, sweep, creating>>

Cancel ==
    \/ CancelStart
    \/ CancelZrem
    \/ CancelUpdRead
    \/ CancelUpdWrite
    \/ CancelRemove

(***************************************************************************)
(* UploadService                                                           *)
(***************************************************************************)
NewUpload(u, file_path) ==
    [upload_id |-> u, file_path |-> file_path, ref_count |-> 0, status |-> "ready"]

create_upload(u, file_path) ==
    /\ uploads' = [uploads EXCEPT ![u] = NewUpload(u, file_path)]
    /\ upload_ttl' = KeyExpire(KeySet(upload_ttl, u), u, UPLOAD_TTL_UNUSED)
    /\ uploads_idx' = [uploads_idx EXCEPT ![u] = now]

(* POST /upload: the file is written, then the record.                     *)
UploadFile ==
    \E u \in UploadIds, f \in FreshPaths :
        /\ uploads[u] = NoUpload
        /\ uploads_idx[u] = NotIn
        /\ uploads_dir' = [uploads_dir EXCEPT ![f] = 1]
        /\ written' = written \cup {f}
        /\ create_upload(u, f)
        /\ UNCHANGED <<clock_vars, queue_vars, results_dir, ref_calls, worker_vars, cancel_vars, resp>>
        /\ up_mtime' = [up_mtime EXCEPT ![f] = now]
        /\ UNCHANGED <<res_mtime, last, ref_ops, sweep, creating>>

IncrementedUpload(ud) == [ud EXCEPT !.ref_count = ud.ref_count + 1]

increment_ref(u) ==
    IF uploads[u] = NoUpload
    THEN UNCHANGED <<uploads, upload_ttl>>
    ELSE /\ uploads' = [uploads EXCEPT ![u] = IncrementedUpload(uploads[u])]
         /\ upload_ttl' = KeyPersist(KeySet(upload_ttl, u), u)

IncrementRef ==
    /\ ref_calls < MaxRefCalls
    /\ ref_calls' = ref_calls + 1
    /\ \E u \in UploadIds : increment_ref(u)
    /\ UNCHANGED <<clock_vars, queue_vars, disk_vars, uploads_idx, worker_vars, cancel_vars, resp>>
    /\ UNCHANGED <<up_mtime, res_mtime, last, ref_ops, sweep, creating>>

DecrementRef ==
    /\ ref_calls < MaxRefCalls
    /\ ref_calls' = ref_calls + 1
    /\ \E u \in UploadIds : decrement_ref(u, FALSE)
    /\ UNCHANGED <<clock_vars, queue_vars, written, results_dir, worker_vars, cancel_vars, resp>>
    /\ UNCHANGED <<up_mtime, res_mtime, last, ref_ops, sweep, creating>>

(***************************************************************************)
(* POST /jobs/create (create_job_from_upload).  The handler calls          *)
(* queue.create_job with the keyword arguments RouterKwargs; a call with a *)
(* keyword the signature does not declare raises TypeError, which the      *)
(* handler does not catch (the client gets a 500).                         *)
(***************************************************************************)
CreateJobParams ==
    {"job_type", "input_file", "original_filename", "file_size_mb", "parameters", "priority"}
RouterKwargs ==
    {"job_type", "upload_id", "input_file", "original_filename", "file_size_mb",
     "parameters", "priority"}

CallBinds(kwargs, params) == kwargs \subseteq params

Answer(code, u, valid, j) ==
    [code |-> code, upload |-> u, valid |-> valid, job |-> j,
     ref_before |-> IF uploads[u] = NoUpload THEN 0 ELSE uploads[u].ref_count]

(* Faulty variant: the job_type is not validated.                          *)
CreateJobFromUpload_NoTypeCheck ==
    \E u \in UploadIds, params_ok \in BOOLEAN, type_ok \in BOOLEAN,
       j \in JobIds, p \in Priorities :
        /\ jobs[j] = NoJob
        /\ IF uploads[u] = NoUpload
           THEN resp' = Answer(404, u, params_ok /\ type_ok, 0) /\ UNCHANGED queue_vars
           ELSE IF ~params_ok
           THEN resp' = Answer(400, u, FALSE, 0) /\ UNCHANGED queue_vars
           ELSE IF ~CallBinds(RouterKwargs, CreateJobParams)
           THEN resp' = Answer(500, u, type_ok, 0) /\ UNCHANGED queue_vars
           ELSE /\ create_job(j, p, uploads[u].file_path)
                /\ resp' = Answer(200, u, type_ok, j)
        /\ UNCHANGED <<clock_vars, disk_vars, upload_vars, worker_vars, cancel_vars>>
        /\ UNCHANGED <<up_mtime, res_mtime, last, ref_ops, sweep, creating>>

CreateJobFromUpload ==
    \E u \in UploadIds, params_ok \in BOOLEAN, type_ok \in BOOLEAN,
       j \in JobIds, p \in Priorities :
        /\ jobs[j] = NoJob
        /\ IF uploads[u] = NoUpload
           THEN resp' = Answer(404, u, params_ok /\ type_ok, 0) /\ UNCHANGED queue_vars
           ELSE IF ~params_ok \/ ~type_ok
           THEN resp' = Answer(400, u, FALSE, 0) /\ UNCHANGED queue_vars
           ELSE IF ~CallBinds(RouterKwargs, CreateJobParams)
           THEN resp' = Answer(500, u, TRUE, 0) /\ UNCHANGED queue_vars
           ELSE /\ create_job(j, p, uploads[u].file_path)
                /\ resp' = Answer(200, u, TRUE, j)
        /\ UNCHANGED <<clock_vars, disk_vars, upload_vars, worker_vars, cancel_vars>>
        /\ UNCHANGED <<up_mtime, res_mtime, last, ref_ops, sweep, creating>>

(***************************************************************************)
(* UploadService.delete_upload_manual and _delete_upload                   *)
(***************************************************************************)
(* A call of one of the operations below: its name, its arguments and what *)
(* it returned; flip changes with every call.                              *)
Call(op, id, ret) == [op |-> op, id |-> id, ret |-> ret, flip |-> ~last.flip]

delete_upload(u, ud) ==
    /\ uploads_dir' = [uploads_dir EXCEPT ![ud.file_path] = NoFile]
    /\ uploads' = [uploads EXCEPT ![u] = NoUpload]
    /\ upload_ttl' = [upload_ttl EXCEPT ![u] = NoTTL]
    /\ uploads_idx' = [uploads_idx EXCEPT ![u] = NotIn]

DeleteUploadManual ==
    \E u \in UploadIds :
        /\ IF uploads[u] = NoUpload \/ uploads[u].ref_count > 0
           THEN /\ last' = Call("delete_upload_manual", u, FALSE)
                /\ UNCHANGED <<uploads, upload_ttl, uploads_idx, uploads_dir>>
           ELSE /\ last' = Call("delete_upload_manual", u, TRUE)
                /\ delete_upload(u, uploads[u])
        /\ UNCHANGED <<clock_vars, queue_vars, written, results_dir, ref_calls>>
        /\ UNCHANGED <<worker_vars, cancel_vars, resp, up_mtime, res_mtime, ref_ops, sweep, creating>>

(***************************************************************************)
(* cleanup_svc: a sweep removes the regular files of a directory whose     *)
(* mtime is before the cutoff, the time the sweep starts minus the TTL.    *)
(***************************************************************************)
Cutoff(t, ttl_hours) == t - ttl_hours * SecondsPerHour

Expired_Inclusive(mtime, t, ttl_hours) == mtime <= Cutoff(t, ttl_hours)

Expired(mtime, t, ttl_hours) == mtime < Cutoff(t, ttl_hours)

Swept(dir, mtime, t, ttl_hours) ==
    [f \in DOMAIN dir |->
        IF dir[f] # NoFile /\ Expired(mtime[f], t, ttl_hours) THEN NoFile ELSE dir[f]]

cleanup_old_uploads(ttl_hours) ==
    uploads_dir' = Swept(uploads_dir, up_mtime, now, ttl_hours)

cleanup_old_files ==
    results_dir' = Swept(results_dir, res_mtime, now, TTL_HOURS)

(* The variant in which the periodic sweep also drops the record and the   *)
(* index entry of every job whose output it removes.                       *)
CleanupTask_DropsRecords ==
    /\ w_pc = "pop"
    /\ cleanup_old_files
    /\ cleanup_old_uploads(TTL_HOURS)
    /\ jobs' = [j \in JobIds |->
                   IF results_dir[j] # NoFile /\ results_dir'[j] = NoFile
                   THEN NoJob ELSE jobs[j]]
    /\ job_ttl' = [j \in JobIds |-> IF jobs'[j] = NoJob THEN NoTTL ELSE job_ttl[j]]
    /\ completed_jobs' = [j \in JobIds |->
                             IF jobs'[j] = NoJob THEN NotIn ELSE completed_jobs[j]]
    /\ last' = Call("cleanup_task", TTL_HOURS, TRUE)
    /\ UNCHANGED <<job_queue, pending_jobs, processing_jobs, failed_jobs, created>>
    /\ UNCHANGED <<clock_vars, written, upload_vars, worker_vars, cancel_vars>>
    /\ UNCHANGED <<resp, up_mtime, res_mtime, ref_ops, sweep, creating>>

(* The hourly cleanup_task of the worker process.  It shares the event     *)
(* loop with Worker.run, and process_job never yields: it runs between two *)
(* jobs.                                                                   *)
CleanupTask ==
    /\ w_pc = "pop"
    /\ cleanup_old_files
    /\ cleanup_old_uploads(TTL_HOURS)
    /\ last' = Call("cleanup_task", TTL_HOURS, TRUE)
    /\ UNCHANGED <<clock_vars, queue_vars, written, upload_vars, worker_vars, cancel_vars>>
    /\ UNCHANGED <<resp, up_mtime, res_mtime, ref_ops, sweep, creating>>

(* DELETE /reset calls both sweeps with the keyword ttl_hours = 0 and      *)
(* catches what they raise.                                                *)
CleanupFilesParams == {}
CleanupUploadsParams == {"ttl_hours"}
ResetKwargs == {"ttl_hours"}

reset_temp_files ==
    /\ IF CallBinds(ResetKwargs, CleanupFilesParams)
       THEN results_dir' = Swept(results_dir, res_mtime, now, 0)
       ELSE UNCHANGED results_dir
    /\ IF CallBinds(ResetKwargs, CleanupUploadsParams)
       THEN cleanup_old_uploads(0)
       ELSE UNCHANGED uploads_dir

Reset ==
    /\ reset_temp_files
    /\ last' = Call("reset", 0, TRUE)
    /\ UNCHANGED <<clock_vars, queue_vars, written, upload_vars, worker_vars, cancel_vars>>
    /\ UNCHANGED <<resp, up_mtime, res_mtime, ref_ops, sweep, creating>>

(***************************************************************************)
(* GET /jobs/download/{job_id} (download_result).  HTTPException takes     *)
(* status_code, detail and headers; the handler's error for a job that is  *)
(* not completed passes content instead of detail.                         *)
(***************************************************************************)
HTTPExceptionParams == {"status_code", "detail", "headers"}
NotCompletedKwargs == {"status_code", "content"}

HttpAnswer(code, status) == [code |-> code, status |-> status]

download_result(j) ==
    LET jd == jobs[j]
    IN  IF jd = NoJob THEN HttpAnswer(404, "")
        ELSE IF jd.status # "completed"
        THEN IF CallBinds(NotCompletedKwargs, HTTPExceptionParams)
             THEN HttpAnswer(400, jd.status)
             ELSE HttpAnswer(500, "")
        ELSE IF results_dir[jd.output_file] = NoFile THEN HttpAnswer(404, "")
        ELSE HttpAnswer(200, "")

Download ==
    \E j \in JobIds :
        /\ last' = Call("download", j, download_result(j))
        /\ UNCHANGED <<clock_vars, queue_vars, disk_vars, upload_vars, worker_vars>>
        /\ UNCHANGED <<cancel_vars, resp, up_mtime, res_mtime, ref_ops, sweep, creating>>

(***************************************************************************)
(* QueueService.get_queue_stats and GET /jobs/stats (get_stats)            *)
(***************************************************************************)
get_queue_stats ==
    [pending |-> Cardinality(Members(job_queue)),
     processing |-> Cardinality(processing_jobs),
     completed_8h |-> Cardinality(Members(completed_jobs)),
     failed_7d |-> Cardinality(Members(failed_jobs))]

GetQueueStats ==
    /\ last' = Call("get_queue_stats", 0, get_queue_stats)
    /\ UNCHANGED <<clock_vars, queue_vars, disk_vars, upload_vars, worker_vars>>
    /\ UNCHANGED <<cancel_vars, resp, up_mtime, res_mtime, ref_ops, sweep, creating>>

(* The keys the handler reads from the dictionary get_queue_stats returns; *)
(* a key that is not there raises KeyError (the client gets a 500).        *)
StatsKeysRead == {"pending", "processing", "completed_3h", "failed_7d"}

get_stats ==
    IF StatsKeysRead \subseteq DOMAIN get_queue_stats
    THEN [code |-> 200, completed |-> get_queue_stats.completed_8h,
          failed |-> get_queue_stats.failed_7d]
    ELSE [code |-> 500, completed |-> None, failed |-> None]

GetStats ==
    /\ last' = Call("get_stats", 0, get_stats)
    /\ UNCHANGED <<clock_vars, queue_vars, disk_vars, upload_vars, worker_vars>>
    /\ UNCHANGED <<cancel_vars, resp, up_mtime, res_mtime, ref_ops, sweep, creating>>

(***************************************************************************)
(* QueueService.get_queue_jobs.  ZRANGE key start stop returns the members *)
(* from rank start to rank stop of the set ordered by score and, among     *)
(* equal scores, by member; a negative rank counts from the end.           *)
(***************************************************************************)
ZBefore(zset, a, b) == zset[a] < zset[b] \/ (zset[a] = zset[b] /\ a < b)

ZSorted(zset) ==
    LET M == Members(zset)
    IN  CHOOSE s \in [1..Cardinality(M) -> M] :
            \A m, n \in 1..Cardinality(M) : m < n => ZBefore(zset, s[m], s[n])

Rank(i, n) == IF i < 0 THEN n + i ELSE i

ZRange(zset, start, stop) ==
    LET s == ZSorted(zset)
        n == Len(s)
        a == IF Rank(start, n) < 0 THEN 0 ELSE Rank(start, n)
        b == IF Rank(stop, n) > n - 1 THEN n - 1 ELSE Rank(stop, n)
    IN  IF a > b THEN <<>> ELSE SubSeq(s, a + 1, b + 1)

RECURSIVE Positioned(_, _)
Positioned(ids, acc) ==
    IF ids = <<>> THEN acc
    ELSE IF jobs[Head(ids)] = NoJob THEN Positioned(Tail(ids), acc)
    ELSE Positioned(Tail(ids),
                    Append(acc, [id |-> Head(ids), queue_position |-> Len(acc) + 1]))

get_queue_jobs(limit) == Positioned(ZRange(job_queue, 0, limit - 1), <<>>)

Limits == 0..MaxLimit

GetQueueJobs ==
    \E limit \in Limits :
        /\ last' = Call("get_queue_jobs", limit, get_queue_jobs(limit))
        /\ UNCHANGED <<clock_vars, queue_vars, disk_vars, upload_vars, worker_vars>>
        /\ UNCHANGED <<cancel_vars, resp, up_mtime, res_mtime, ref_ops, sweep, creating>>

(***************************************************************************)
(* Calls of QueueService.get_next_job and QueueService.update_job_status   *)
(* by a client of the service.                                             *)
(***************************************************************************)
GetNextJob ==
    /\ IF Members(job_queue) = {}
       THEN /\ last' = Call("get_next_job", 0, None)
            /\ UNCHANGED <<job_queue, popped>>
       ELSE /\ last' = Call("get_next_job", 0, get_next_job)
            /\ job_queue' = [job_queue EXCEPT ![get_next_job] = NotIn]
            /\ popped' = Append(popped, get_next_job)
    /\ UNCHANGED <<jobs, job_ttl, pending_jobs, processing_jobs, completed_jobs, failed_jobs>>
    /\ UNCHANGED <<clock_vars, created, disk_vars, upload_vars, cancel_vars, resp>>
    /\ UNCHANGED <<running, w_pc, w_job, w_data, w_upd, w_err, engine_calls>>
    /\ UNCHANGED <<up_mtime, res_mtime, ref_ops, sweep, creating>>

Statuses == {"pending", "processing", "completed", "failed"}

update_job_status(j, status) ==
    IF jobs[j] = NoJob
    THEN UNCHANGED store_vars
    ELSE /\ UpdateWrite(j, jobs[j], status, None, j, EngineMsg)
         /\ UNCHANGED job_queue

UpdateJobStatus ==
    \E j \in JobIds, status \in Statuses :
        /\ update_job_status(j, status)
        /\ last' = Call("update_job_status", j,
                        [from |-> jobs[j].status, to |-> status])
        /\ UNCHANGED <<clock_vars, created, disk_vars, upload_vars, worker_vars>>
        /\ UNCHANGED <<cancel_vars, resp, up_mtime, res_mtime, ref_ops, sweep, creating>>

(***************************************************************************)
(* increment_ref and decrement_ref called by several processes.  Each call *)
(* is a GET of upload:<id> followed, in a later step, by a SET of the      *)
(* record it read with ref_count changed by one.                           *)
(***************************************************************************)
RefOps == {"increment_ref", "decrement_ref"}

(* get_upload: the call ends here when the record does not exist.          *)
RefBegin(p) ==
    \E op \in RefOps, u \in UploadIds :
        /\ ref_ops.procs[p] = NoRefOp
        /\ ref_calls < MaxRefCalls
        /\ ref_calls' = ref_calls + 1
        /\ ref_ops' = IF uploads[u] = NoUpload
                      THEN ref_ops
                      ELSE [ref_ops EXCEPT !.procs[p] =
                               [pc |-> "set", op |-> op, id |-> u, data |-> uploads[u]]]
        /\ UNCHANGED <<clock_vars, queue_vars, disk_vars, uploads, upload_ttl, uploads_idx>>
        /\ UNCHANGED <<worker_vars, cancel_vars, resp, up_mtime, res_mtime, last, sweep, creating>>

(* The SET of the changed record; increment_ref then calls PERSIST.        *)
RefEnd(p) ==
    LET c == ref_ops.procs[p]
    IN  /\ c # NoRefOp
        /\ IF c.op = "increment_ref"
           THEN /\ uploads' = [uploads EXCEPT ![c.id] = IncrementedUpload(c.data)]
                /\ upload_ttl' = KeyPersist(KeySet(upload_ttl, c.id), c.id)
                /\ ref_ops' = [ref_ops EXCEPT !.procs[p] = NoRefOp,
                                              !.inc[c.id] = @ + 1]
           ELSE /\ uploads' = [uploads EXCEPT ![c.id] = DecrementedUpload(c.data)]
                /\ upload_ttl' = KeySet(upload_ttl, c.id)
                /\ ref_ops' = [ref_ops EXCEPT !.procs[p] = NoRefOp,
                                              !.dec[c.id] = @ + 1]
        /\ UNCHANGED <<clock_vars, queue_vars, disk_vars, uploads_idx, ref_calls>>
        /\ UNCHANGED <<worker_vars, cancel_vars, resp, up_mtime, res_mtime, last, sweep, creating>>

RefCall == \E p \in Procs : RefBegin(p)

RefReturn == \E p \in Procs : RefEnd(p)

(***************************************************************************)
(* Creation of a job that cites an upload.  QueueService.create_job has no *)
(* upload_id parameter, so no code of the repository writes the upload_id  *)
(* field that Worker.process_job reads.  The creation below follows the    *)
(* specified create operation: the record carries upload_id and            *)
(* increment_ref is called before returning.                               *)
(***************************************************************************)
NewJobForUpload(priority, u, t) ==
    [status |-> "pending", priority |-> priority, created_at |-> t,
     started_at |-> None, completed_at |-> None, progress |-> 0,
     input_file |-> uploads[u].file_path, output_file |-> None,
     error |-> NoError, upload_id |-> u]

create_with_upload(j, priority, u) ==
    /\ jobs[j] = NoJob
    /\ jobs' = [jobs EXCEPT ![j] = NewJobForUpload(priority, u, now)]
    /\ job_ttl' = [job_ttl EXCEPT ![j] = NoTTL]
    /\ pending_jobs' = [pending_jobs EXCEPT ![j] = now]
    /\ job_queue' = [job_queue EXCEPT ![j] = Score(priority, now)]
    /\ created' = Append(created, j)
    /\ UNCHANGED <<processing_jobs, completed_jobs, failed_jobs>>
    /\ increment_ref(u)

CreateJobForUpload ==
    \E j \in JobIds, p \in Priorities, u \in UploadIds :
        /\ uploads[u] # NoUpload
        /\ create_with_upload(j, p, u)
        /\ UNCHANGED <<clock_vars, disk_vars, uploads_idx, ref_calls, worker_vars>>
        /\ UNCHANGED <<cancel_vars, resp, up_mtime, res_mtime, last, ref_ops, sweep, creating>>

(***************************************************************************)
(* The clock with key expiry.  create_upload arms upload:<id> with EXPIRE  *)
(* at the time it writes the uploads index; the store deletes the key once *)
(* that many seconds have passed, and nothing else: the file and the index *)
(* entry stay.                                                             *)
(***************************************************************************)
ExpirySteps == {1, UPLOAD_TTL_UNUSED}

KeyDeadline(u) == uploads_idx[u] + upload_ttl[u]

KeyExpired(u, t) ==
    uploads[u] # NoUpload /\ upload_ttl[u] # NoTTL /\ KeyDeadline(u) <= t

TickExpire ==
    /\ ticks < MaxTicks
    /\ ticks' = ticks + 1
    /\ \E d \in ExpirySteps :
        /\ now' = now + d
        /\ uploads' = [u \in UploadIds |->
                          IF KeyExpired(u, now + d) THEN NoUpload ELSE uploads[u]]
        /\ upload_ttl' = [u \in UploadIds |->
                             IF KeyExpired(u, now + d) THEN NoTTL ELSE upload_ttl[u]]
    /\ UNCHANGED <<queue_vars, disk_vars, uploads_idx, ref_calls, worker_vars>>
    /\ UNCHANGED <<cancel_vars, resp, up_mtime, res_mtime, last, ref_ops, sweep, creating>>

(***************************************************************************)
(* The worker process dies while it holds a job and is started again:      *)
(* Worker.__init__ and run keep nothing of the job in hand and read        *)
(* nothing back from the store on startup.                                  *)
(***************************************************************************)
WorkerCrash ==
    /\ w_pc # "pop"
    /\ w_pc' = "pop"
    /\ w_job' = 0
    /\ w_data' = NoJob
    /\ w_upd' = NoJob
    /\ w_err' = NoError
    /\ running' = TRUE
    /\ UNCHANGED <<clock_vars, queue_vars, disk_vars, upload_vars, cancel_vars, resp>>
    /\ UNCHANGED <<engine_calls, popped, up_mtime, res_mtime, last, ref_ops, sweep, creating>>

(***************************************************************************)
(* Shutdown.  handle_shutdown runs on SIGTERM or SIGINT, at any point of   *)
(* the loop, and only clears running; the loop tests running before each   *)
(* get_next_job and after each process_job or idle sleep.                  *)
(***************************************************************************)
Shutdown ==
    /\ running
    /\ running' = FALSE
    /\ UNCHANGED <<clock_vars, queue_vars, disk_vars, upload_vars, cancel_vars, resp>>
    /\ UNCHANGED <<w_pc, w_job, w_data, w_upd, w_err, engine_calls, popped>>
    /\ UNCHANGED <<up_mtime, res_mtime, last, ref_ops, sweep, creating>>

(* Faulty variant: the loop is left as soon as running is cleared, with    *)
(* the job in hand where it is.                                            *)
WorkerExit_Interrupts ==
    /\ ~running
    /\ w_pc # "stopped"
    /\ w_pc' = "stopped"
    /\ UNCHANGED <<clock_vars, queue_vars, disk_vars, upload_vars, cancel_vars, resp>>
    /\ UNCHANGED <<running, w_job, w_data, w_upd, w_err, engine_calls, popped>>
    /\ UNCHANGED <<up_mtime, res_mtime, last, ref_ops, sweep, creating>>

(* while self.running: is false between two iterations.                    *)
WorkerExit ==
    /\ ~running
    /\ w_pc = "pop"
    /\ w_pc' = "stopped"
    /\ UNCHANGED <<clock_vars, queue_vars, disk_vars, upload_vars, cancel_vars, resp>>
    /\ UNCHANGED <<running, w_job, w_data, w_upd, w_err, engine_calls, popped>>
    /\ UNCHANGED <<up_mtime, res_mtime, last, ref_ops, sweep, creating>>

(***************************************************************************)
(* cleanup_svc, entry by entry: the sweep lists the directory, computes    *)
(* the cutoff once, then examines every listed entry.  An entry that is    *)
(* not a regular file is skipped; inside the per-file try a regular file   *)
(* older than the cutoff is removed, and any exception there (getmtime,    *)
(* getsize, remove) is counted and the loop goes on to the next entry.     *)
(***************************************************************************)
Subdir == -2
SweepDirs == {"results", "uploads"}
DirOf(d) == IF d = "results" THEN results_dir ELSE uploads_dir
MtimeOf(d) == IF d = "results" THEN res_mtime ELSE up_mtime
listdir(d) == {f \in DOMAIN DirOf(d) : DirOf(d)[f] # NoFile}
isfile(d, f) == DirOf(d)[f] # NoFile /\ DirOf(d)[f] # Subdir

os_remove(d, f) ==
    IF d = "results"
    THEN /\ results_dir' = [results_dir EXCEPT ![f] = NoFile]
         /\ UNCHANGED uploads_dir
    ELSE /\ uploads_dir' = [uploads_dir EXCEPT ![f] = NoFile]
         /\ UNCHANGED results_dir

SweepBegin ==
    /\ sweep.pc = "idle"
    /\ \E d \in SweepDirs :
        sweep' = [pc |-> "loop", dir |-> d, cutoff |-> Cutoff(now, TTL_HOURS),
                  todo |-> listdir(d), deleted |-> {}, errors |-> {}]
    /\ UNCHANGED <<clock_vars, queue_vars, disk_vars, upload_vars, worker_vars, cancel_vars>>
    /\ UNCHANGED <<resp, up_mtime, res_mtime, last, ref_ops, creating>>

(* The variant in which an exception on one file leaves the loop.          *)
SweepEntry_AbortsOnError ==
    /\ sweep.pc = "loop"
    /\ \E f \in sweep.todo, raises \in BOOLEAN :
        LET d == sweep.dir
            rest == sweep.todo \ {f}
        IN  IF ~isfile(d, f)
            THEN /\ ~raises
                 /\ sweep' = [sweep EXCEPT !.todo = rest]
                 /\ UNCHANGED <<uploads_dir, results_dir>>
            ELSE IF raises
            THEN /\ sweep' = [sweep EXCEPT !.todo = {}, !.errors = @ \cup {f}]
                 /\ UNCHANGED <<uploads_dir, results_dir>>
            ELSE IF MtimeOf(d)[f] < sweep.cutoff
            THEN /\ os_remove(d, f)
                 /\ sweep' = [sweep EXCEPT !.todo = rest, !.deleted = @ \cup {f}]
            ELSE /\ sweep' = [sweep EXCEPT !.todo = rest]
                 /\ UNCHANGED <<uploads_dir, results_dir>>
    /\ UNCHANGED <<clock_vars, queue_vars, written, upload_vars, worker_vars, cancel_vars>>
    /\ UNCHANGED <<resp, up_mtime, res_mtime, last, ref_ops, creating>>

SweepEntry ==
    /\ sweep.pc = "loop"
    /\ \E f \in sweep.todo, raises \in BOOLEAN :
        LET d == sweep.dir
            rest == sweep.todo \ {f}
        IN  IF ~isfile(d, f)
            THEN /\ ~raises
                 /\ sweep' = [sweep EXCEPT !.todo = rest]
                 /\ UNCHANGED <<uploads_dir, results_dir>>
            ELSE IF raises
            THEN /\ sweep' = [sweep EXCEPT !.todo = rest, !.errors = @ \cup {f}]
                 /\ UNCHANGED <<uploads_dir, results_dir>>
            ELSE IF MtimeOf(d)[f] < sweep.cutoff
            THEN /\ os_remove(d, f)
                 /\ sweep' = [sweep EXCEPT !.todo = rest, !.deleted = @ \cup {f}]
            ELSE /\ sweep' = [sweep EXCEPT !.todo = rest]
                 /\ UNCHANGED <<uploads_dir, results_dir>>
    /\ UNCHANGED <<clock_vars, queue_vars, written, upload_vars, worker_vars, cancel_vars>>
    /\ UNCHANGED <<resp, up_mtime, res_mtime, last, ref_ops, creating>>

SweepEnd ==
    /\ sweep.pc = "loop"
    /\ sweep.todo = {}
    /\ sweep' = NoSweep
    /\ last' = Call("sweep", sweep.dir, [files_deleted |-> Cardinality(sweep.deleted),
                                         errors |-> Cardinality(sweep.errors)])
    /\ UNCHANGED <<clock_vars, queue_vars, disk_vars, upload_vars, worker_vars, cancel_vars>>
    /\ UNCHANGED <<resp, up_mtime, res_mtime, ref_ops, creating>>

(***************************************************************************)
(* create_job command by command, as another process sees it: SET of the   *)
(* record, ZADD pending_jobs, ZADD job_queue.  The id is a fresh uuid4 and *)
(* is returned, and listed by get_queue_jobs, only once it is in           *)
(* job_queue.  The caller is POST /video/extraer-audio, which has written  *)
(* the input file first.                                                   *)
(***************************************************************************)
CreateJobSet ==
    /\ creating.pc = "idle"
    /\ \E j \in JobIds, f \in FreshPaths :
        /\ jobs[j] = NoJob
        /\ uploads_dir' = [uploads_dir EXCEPT ![f] = 1]
        /\ written' = written \cup {f}
        /\ up_mtime' = [up_mtime EXCEPT ![f] = now]
        /\ jobs' = [jobs EXCEPT ![j] = NewJob(PRIORITY_NORMAL, f, now)]
        /\ job_ttl' = [job_ttl EXCEPT ![j] = NoTTL]
        /\ creating' = [pc |-> "zadd_pending", job |-> j, priority |-> PRIORITY_NORMAL]
    /\ UNCHANGED <<job_queue, pending_jobs, processing_jobs, completed_jobs, failed_jobs, created>>
    /\ UNCHANGED <<clock_vars, results_dir, upload_vars, worker_vars, cancel_vars, resp>>
    /\ UNCHANGED <<res_mtime, last, ref_ops, sweep>>

CreateJobZaddPending ==
    /\ creating.pc = "zadd_pending"
    /\ pending_jobs' = [pending_jobs EXCEPT ![creating.job] = now]
    /\ creating' = [creating EXCEPT !.pc = "zadd_queue"]
    /\ UNCHANGED <<jobs, job_ttl, job_queue, processing_jobs, completed_jobs, failed_jobs, created>>
    /\ UNCHANGED <<clock_vars, disk_vars, upload_vars, worker_vars, cancel_vars, resp>>
    /\ UNCHANGED <<up_mtime, res_mtime, last, ref_ops, sweep>>

CreateJobZaddQueue ==
    /\ creating.pc = "zadd_queue"
    /\ job_queue' = [job_queue EXCEPT ![creating.job] = Score(creating.priority, now)]
    /\ created' = Append(created, creating.job)
    /\ creating' = NoCreating
    /\ UNCHANGED <<jobs, job_ttl, pending_jobs, processing_jobs, completed_jobs, failed_jobs>>
    /\ UNCHANGED <<clock_vars, disk_vars, upload_vars, worker_vars, cancel_vars, resp>>
    /\ UNCHANGED <<up_mtime, res_mtime, last, ref_ops, sweep>>

CreateJobSteps ==
    \/ CreateJobSet
    \/ CreateJobZaddPending
    \/ CreateJobZaddQueue

(* DELETE /jobs/{job_id} for an id its caller can know: one that           *)
(* create_job has returned or get_queue_jobs has listed.                   *)
CancelDisclosed ==
    \/ CancelStart /\ (creating.pc # "idle" => c_job' # creating.job)
    \/ CancelZrem
    \/ CancelUpdRead
    \/ CancelUpdWrite
    \/ CancelRemove

Next ==
    \/ SaveFile
    \/ CreateJob
    \/ Worker
    \/ Cancel

Spec == Init /\ [][Next]_vars

(* Creation and service order, with the clock.                             *)
NextOrder ==
    \/ Tick
    \/ SaveFile
    \/ CreateJob
    \/ Worker

SpecOrder == Init /\ [][NextOrder]_vars

(* The upload registry and the job-creation endpoint.                      *)
NextUpload ==
    \/ UploadFile
    \/ IncrementRef
    \/ DecrementRef
    \/ CreateJobFromUpload

SpecUpload == Init /\ [][NextUpload]_vars

(* Jobs that read the file of a registered upload.                         *)
NextReuse ==
    \/ UploadFile
    \/ CreateJob
    \/ Worker

SpecReuse == Init /\ [][NextReuse]_vars

(* The worker loop keeps running and a cancel_job call that has started    *)
(* returns: weak fairness on the steps of both.                            *)
CancelRuns == CancelZrem \/ CancelUpdRead \/ CancelUpdWrite \/ CancelRemove

NextLive ==
    \/ ExtractAudio
    \/ Worker
    \/ Cancel

SpecLive == Init /\ [][NextLive]_vars /\ WF_vars(Worker) /\ WF_vars(CancelRuns)

(* The upload registry with manual deletion.                               *)
NextRegistry ==
    \/ UploadFile
    \/ IncrementRef
    \/ DecrementRef
    \/ DeleteUploadManual

SpecRegistry == Init /\ [][NextRegistry]_vars

(* Jobs, their files, the sweeps and the download endpoint.                *)
NextFiles ==
    \/ Tick
    \/ ExtractAudio
    \/ Worker
    \/ CleanupTask
    \/ Reset
    \/ Download

SpecFiles == Init /\ [][NextFiles]_vars

(* Jobs run by the worker while the clock advances, and the statistics.    *)
NextStats ==
    \/ Tick
    \/ ExtractAudio
    \/ Worker
    \/ GetQueueStats
    \/ GetStats

SpecStats == Init /\ [][NextStats]_vars

(* The queue as its clients see it: creation, service and listing.         *)
NextQueue ==
    \/ Tick
    \/ CreateJob
    \/ GetNextJob
    \/ GetQueueJobs

SpecQueue == Init /\ [][NextQueue]_vars

(* update_job_status called by a client with any status.                   *)
NextStatus ==
    \/ CreateJob
    \/ UpdateJobStatus

SpecStatus == Init /\ [][NextStatus]_vars

(* Several processes calling increment_ref and decrement_ref.              *)
NextRefs ==
    \/ UploadFile
    \/ RefCall
    \/ RefReturn

SpecRefs == Init /\ [][NextRefs]_vars

(* Jobs that cite an upload and jobs that do not, run by the worker.       *)
NextShared ==
    \/ UploadFile
    \/ CreateJobForUpload
    \/ ExtractAudio
    \/ Worker
    \/ Cancel

SpecShared == Init /\ [][NextShared]_vars

(* The life of an upload: creation, references, manual delete, key expiry  *)
(* and the periodic sweep.                                                 *)
NextLifecycle ==
    \/ TickExpire
    \/ UploadFile
    \/ IncrementRef
    \/ DecrementRef
    \/ DeleteUploadManual
    \/ CleanupTask

SpecLifecycle == Init /\ [][NextLifecycle]_vars

(* The worker and cancel_job with the clock.                               *)
NextTimed ==
    \/ TickSecond
    \/ ExtractAudio
    \/ Worker
    \/ Cancel

SpecTimed == Init /\ [][NextTimed]_vars

(* A worker that may crash and restart; between crashes it keeps running.  *)
NextCrash ==
    \/ ExtractAudio
    \/ Worker
    \/ WorkerCrash

SpecCrash == Init /\ [][NextCrash]_vars /\ WF_vars(Worker)

(* The worker and another client of get_next_job popping concurrently,     *)
(* with cancel_job.                                                        *)
NextPops ==
    \/ ExtractAudio
    \/ Worker
    \/ GetNextJob
    \/ Cancel

SpecPops == Init /\ [][NextPops]_vars

(* A worker that receives a termination signal; the loop keeps taking      *)
(* steps until it exits.                                                   *)
NextShutdown ==
    \/ ExtractAudio
    \/ Worker
    \/ Cancel
    \/ Shutdown
    \/ WorkerExit

SpecShutdown ==
    Init /\ [][NextShutdown]_vars /\ WF_vars(Worker) /\ WF_vars(WorkerExit)

(***************************************************************************)
(* The sweeps as functions of what the two directories hold: every entry   *)
(* is absent, a subdirectory, or a regular file whose mtime is before, at  *)
(* or after the cutoff of a sweep started at SweepTime.                    *)
(***************************************************************************)
SweepTime == TTL_HOURS * SecondsPerHour + 1
SweepMtimes == {Cutoff(SweepTime, TTL_HOURS) - 1, Cutoff(SweepTime, TTL_HOURS), SweepTime}
DirEntries == {<<NoFile, None>>, <<Subdir, Cutoff(SweepTime, TTL_HOURS) - 1>>}
                  \cup {<<1, m>> : m \in SweepMtimes}

InitSweep ==
    /\ now = SweepTime
    /\ ticks = 0
    /\ jobs = [j \in JobIds |-> NoJob]
    /\ job_ttl = [j \in JobIds |-> NoTTL]
    /\ job_queue = [j \in JobIds |-> NotIn]
    /\ pending_jobs = [j \in JobIds |-> NotIn]
    /\ processing_jobs = {}
    /\ completed_jobs = [j \in JobIds |-> NotIn]
    /\ failed_jobs = [j \in JobIds |-> NotIn]
    /\ \E e \in [Paths -> DirEntries] :
        /\ uploads_dir = [f \in Paths |-> e[f][1]]
        /\ up_mtime = [f \in Paths |-> e[f][2]]
        /\ written = {f \in Paths : e[f][1] # NoFile}
    /\ \E e \in [JobIds -> DirEntries] :
        /\ results_dir = [j \in JobIds |-> e[j][1]]
        /\ res_mtime = [j \in JobIds |-> e[j][2]]
    /\ uploads = [u \in UploadIds |-> NoUpload]
    /\ upload_ttl = [u \in UploadIds |-> NoTTL]
    /\ uploads_idx = [u \in UploadIds |-> NotIn]
    /\ running = TRUE
    /\ w_pc = "pop"
    /\ w_job = 0
    /\ w_data = NoJob
    /\ w_upd = NoJob
    /\ w_err = NoError
    /\ c_pc = "idle"
    /\ c_job = 0
    /\ c_data = NoJob
    /\ c_upd = NoJob
    /\ c_ret = "none"
    /\ engine_calls = [j \in JobIds |-> 0]
    /\ popped = <<>>
    /\ created = <<>>
    /\ ref_calls = 0
    /\ resp = NoResp
    /\ last = NoCall
    /\ ref_ops = NoRefOps
    /\ sweep = NoSweep
    /\ creating = NoCreating

NextSweep ==
    \/ SweepBegin
    \/ SweepEntry
    \/ SweepEnd

SpecSweep == InitSweep /\ [][NextSweep]_vars

(* Uploads, jobs run by the worker, the clock with key expiry, and the     *)
(* sweeps of the periodic cleanup and of the reset endpoint.               *)
NextFrame ==
    \/ TickExpire
    \/ UploadFile
    \/ ExtractAudio
    \/ Worker
    \/ CleanupTask
    \/ Reset

SpecFrame == Init /\ [][NextFrame]_vars

(* The clock passes the age at which the sweeps remove a file.             *)
TickPastTTL ==
    /\ ticks < MaxTicks
    /\ now' = now + TTL_HOURS * SecondsPerHour + 1
    /\ ticks' = ticks + 1
    /\ UNCHANGED <<queue_vars, disk_vars, upload_vars, worker_vars, cancel_vars, resp>>
    /\ UNCHANGED <<up_mtime, res_mtime, last, ref_ops, sweep, creating>>

(* Files saved and jobs created on them, the worker, the clock and the     *)
(* periodic sweep.                                                         *)
NextInputs ==
    \/ TickPastTTL
    \/ SaveFile
    \/ CreateJob
    \/ Worker
    \/ CleanupTask

SpecInputs == Init /\ [][NextInputs]_vars

(* create_job command by command, the worker, a second client of           *)
(* get_next_job and cancel_job.                                            *)
NextCreate ==
    \/ CreateJobSteps
    \/ Worker
    \/ GetNextJob
    \/ CancelDisclosed

SpecCreate == Init /\ [][NextCreate]_vars

(***************************************************************************)
(*                               Properties                                *)
(***************************************************************************)
IsPending(j) == jobs[j] # NoJob /\ jobs[j].status = "pending"

(* The step in which get_next_job returns job j to the worker.             *)
PopStep(j) == w_pc = "pop" /\ w_pc' = "fetch" /\ w_job' = j

(* a was created before b.                                                 *)
CreatedBefore(a, b) ==
    \E m, n \in DOMAIN created : m < n /\ created[m] = a /\ created[n] = b

(* C1: the worker never takes a job of priority p2 from job_queue while a  *)
(* job of priority p1 < p2 is pending in job_queue, whatever the creation  *)
(* times of the two jobs.                                                  *)
C1_StrictPriorityAcrossBands ==
    [][\A j \in JobIds : PopStep(j) =>
          \A k \in Members(job_queue) :
              IsPending(k) => jobs[k].priority >= jobs[j].priority]_vars

(* C2: of two pending jobs of the same priority, get_next_job returns the  *)
(* one created first, also when both got the same timestamp.               *)
C2_FifoWithinBand ==
    [][\A j \in JobIds : PopStep(j) =>
          \A k \in Members(job_queue) \ {j} :
              jobs[k].priority = jobs[j].priority => CreatedBefore(j, k)]_vars

(* A step of the cancel_job call for job j that starts it or returns from  *)
(* it.                                                                     *)
CancelCalled(j) ==
    /\ c_pc = "idle"
    /\ c_job' = j
    /\ <<c_pc, c_job, c_ret>>' # <<c_pc, c_job, c_ret>>

CancelReturnsTrue(j) == c_pc = "remove" /\ c_pc' = "idle" /\ c_job = j /\ c_ret' = "true"

(* C3: once a job's status is completed or failed it never changes again,  *)
(* whatever the interleaving of the worker with cancel_job.                *)
C3_TerminalIsFinal ==
    [][\A j \in JobIds :
          (jobs[j] # NoJob /\ jobs[j].status \in Terminal)
              => jobs'[j].status = jobs[j].status]_vars

(* C4: cancel_job on a job that is processing, completed or failed, or on  *)
(* an unknown id, returns false and changes neither the store nor the      *)
(* disk.                                                                   *)
C4_CancelRefuses ==
    [][\A j \in JobIds :
          (CancelCalled(j) /\ ~IsPending(j))
              => /\ c_ret' = "false"
                 /\ c_pc' = "idle"
                 /\ UNCHANGED <<store_vars, uploads_dir, results_dir>>]_vars

C4_Witness ==
    /\ c_pc = "idle"
    /\ c_ret = "false"
    /\ c_job \in JobIds
    /\ jobs[c_job] # NoJob
    /\ jobs[c_job].status = "completed"
    /\ uploads_dir[jobs[c_job].input_file] # NoFile

(* C5: when cancel_job returns true for job j, j is in neither job_queue   *)
(* nor pending_jobs, its status is failed, its error is the cancellation   *)
(* message and j is in failed_jobs.                                        *)
C5_CancelPostcondition ==
    [][\A j \in JobIds : CancelReturnsTrue(j) =>
          /\ job_queue'[j] = NotIn
          /\ pending_jobs'[j] = NotIn
          /\ jobs'[j].status = "failed"
          /\ jobs'[j].error = CancelMsg
          /\ failed_jobs'[j] # NotIn]_vars

(* C6: a cancel_job call for job j changes neither the record nor the      *)
(* input file of another job k that the worker is processing, also when j  *)
(* and k have the same input_file.                                         *)
C6_CancelLeavesCurrentJob ==
    [][\A j \in JobIds, k \in JobIds :
          (/\ j # k
           /\ c_job = j
           /\ c_pc # "idle"
           /\ c_pc' # c_pc
           /\ w_job = k
           /\ jobs[k] # NoJob
           /\ jobs[k].status = "processing")
              => /\ jobs'[k] = jobs[k]
                 /\ uploads_dir'[jobs[k].input_file] = uploads_dir[jobs[k].input_file]]_vars

(* C7: with finitely many jobs, a worker loop that keeps running and       *)
(* media-engine calls that return or raise, every created job eventually   *)
(* is completed or failed.                                                 *)
C7_EveryJobEnds ==
    \A j \in JobIds :
        (jobs[j] # NoJob) ~> (jobs[j] # NoJob /\ jobs[j].status \in Terminal)

C7_Witness ==
    /\ Len(created) = MaxJobs
    /\ \A j \in JobIds : jobs[j] # NoJob /\ jobs[j].status \in Terminal
    /\ \E j \in JobIds : jobs[j].status = "completed"
    /\ \E j \in JobIds : jobs[j].status = "failed" /\ jobs[j].error = EngineMsg

(* C8: after every increment_ref and decrement_ref call (auto_delete       *)
(* false), in any order, ref_count >= 0.                                   *)
C8_RefCountNonNegative ==
    \A u \in UploadIds : uploads[u] # NoUpload => uploads[u].ref_count >= 0

(* C9: a job-creation request with valid fields that cites an existing     *)
(* upload U returns a job id, stores upload_id = U in the job record and   *)
(* leaves U.ref_count one higher than before.                              *)
C9_CreateFromUpload ==
    [][(resp' # resp /\ resp'.valid /\ uploads[resp'.upload] # NoUpload) =>
          /\ resp'.code = 200
          /\ resp'.job \in JobIds
          /\ UploadIdOf(jobs'[resp'.job]) = resp'.upload
          /\ uploads'[resp'.upload].ref_count = resp'.ref_before + 1]_vars

(* C10: after a job that reads the file of upload U is completed or        *)
(* failed, with no cleanup sweep and no expiry, U's record exists and U's  *)
(* file is on disk.                                                        *)
C10_UploadReusable ==
    \A u \in UploadIds, j \in JobIds :
        (/\ uploads[u] # NoUpload
         /\ jobs[j] # NoJob
         /\ jobs[j].input_file = uploads[u].file_path
         /\ jobs[j].status \in Terminal
         /\ w_job # j)
            => uploads_dir[uploads[u].file_path] # NoFile
(* The step in which the operation op is called on id.                     *)
Called(op, id) == last'.flip # last.flip /\ last'.op = op /\ last'.id = id

(* C11: delete_upload_manual deletes the upload's file, record and index   *)
(* entry only when ref_count = 0; for every other ref_count it returns     *)
(* false and leaves file, record and index unchanged.                      *)
C11_DeleteOnlyUnreferenced ==
    [][\A u \in UploadIds :
          (Called("delete_upload_manual", u) /\ uploads[u] # NoUpload)
              => IF uploads[u].ref_count = 0
                 THEN /\ last'.ret
                      /\ uploads'[u] = NoUpload
                      /\ uploads_idx'[u] = NotIn
                      /\ uploads_dir'[uploads[u].file_path] = NoFile
                 ELSE /\ ~last'.ret
                      /\ UNCHANGED <<uploads, uploads_idx, uploads_dir>>]_vars
(* C12: a job record whose status update_job_status set to completed       *)
(* carries an expiry of 8 hours, one it set to failed an expiry of 7 days. *)
C12_TerminalRecordExpires ==
    \A j \in JobIds :
        jobs[j] # NoJob =>
            /\ jobs[j].status = "completed" => job_ttl[j] = CompletedTTL
            /\ jobs[j].status = "failed" => job_ttl[j] = FailedTTL
(* C13: GET /jobs/download/{id} serves a file only for a completed job;    *)
(* for a pending, processing or failed job it answers 400 with the job's   *)
(* status, for a completed job whose output file is gone it answers 404.   *)
C13_DownloadAnswers ==
    [][\A j \in JobIds :
          Called("download", j) =>
              LET jd == jobs[j]
                  r == last'.ret
              IN  /\ r.code = 200 => (jd # NoJob /\ jd.status = "completed")
                  /\ (jd # NoJob /\ jd.status \in {"pending", "processing", "failed"})
                        => (r.code = 400 /\ r.status = jd.status)
                  /\ (/\ jd # NoJob
                      /\ jd.status = "completed"
                      /\ results_dir[jd.output_file] = NoFile) => r.code = 404]_vars

(* C14: when DELETE /reset returns, no file that was in /disk/results or   *)
(* in /disk/uploads before the call is left.                               *)
C14_ResetRemovesAll ==
    [][Called("reset", 0) =>
          /\ \A f \in Paths : uploads_dir[f] # NoFile => uploads_dir'[f] = NoFile
          /\ \A j \in JobIds : results_dir[j] # NoFile => results_dir'[j] = NoFile]_vars

(* A sweep with the given TTL runs in this step.                           *)
SweepRuns(ttl_hours) ==
    Called("cleanup_task", ttl_hours) \/ Called("reset", ttl_hours)

Within(zset, hours) ==
    {j \in Members(zset) : now - zset[j] <= hours * SecondsPerHour}

(* C16: get_queue_stats reports as completed the number of jobs completed  *)
(* within the last 8 hours and as failed the number of jobs failed within  *)
(* the last 7 days.                                                        *)
C16_StatsWindows ==
    [][Called("get_queue_stats", 0) =>
          /\ last'.ret.completed_8h = Cardinality(Within(completed_jobs, 8))
          /\ last'.ret.failed_7d = Cardinality(Within(failed_jobs, 7 * 24))]_vars
(* The ids successive get_next_job calls return from the sorted set.       *)
RECURSIVE PopOrder(_)
PopOrder(zset) ==
    IF Members(zset) = {} THEN <<>>
    ELSE <<ZFirst(zset)>> \o PopOrder([zset EXCEPT ![ZFirst(zset)] = NotIn])

(* C17: get_queue_jobs(limit) returns the pending jobs in the order in     *)
(* which successive get_next_job calls would return them, at most limit of *)
(* them, with queue_position 1, 2, ..., n.                                 *)
C17_QueueListing ==
    [][\A limit \in Limits :
          Called("get_queue_jobs", limit) =>
              LET r == last'.ret
                  order == PopOrder(job_queue)
              IN  /\ Len(r) <= limit
                  /\ Len(r) <= Len(order)
                  /\ Len(order) <= limit => Len(r) = Len(order)
                  /\ \A i \in 1..Len(r) :
                        /\ r[i].id = order[i]
                        /\ r[i].queue_position = i]_vars
(* C18: a job-creation request that fails validation (unknown or expired   *)
(* upload_id, parameters that are not JSON, unknown job_type) is answered  *)
(* with a 4xx error, creates no job record, adds nothing to job_queue or   *)
(* pending_jobs and changes no upload's ref_count.                         *)
C18_RejectedRequestCreatesNothing ==
    [][(resp' # resp /\ (uploads[resp'.upload] = NoUpload \/ ~resp'.valid)) =>
          /\ resp'.code \in 400..499
          /\ UNCHANGED <<jobs, job_queue, pending_jobs, uploads>>]_vars

(* A request citing an existing upload was rejected for its parameters or  *)
(* its job_type, and there is no job.                                      *)
C18_Witness ==
    /\ resp.code = 400
    /\ uploads[resp.upload] # NoUpload
    /\ ~resp.valid
    /\ \A j \in JobIds : jobs[j] = NoJob /\ job_queue[j] = NotIn
(* C19: with one worker that does not crash, processing_jobs holds at most *)
(* one job id in every reachable state, whatever the interleaving with job *)
(* creations and cancellations.                                            *)
C19_OneJobProcessing == Cardinality(processing_jobs) <= 1

(* The worker is processing its second job after it finished the first,    *)
(* and a cancellation has been made.                                       *)
C19_Witness ==
    /\ Cardinality(processing_jobs) = 1
    /\ Len(popped) = 2
    /\ \E k \in JobIds : k \notin processing_jobs /\ jobs[k].status = "completed"
    /\ c_ret # "none"
(* The transitions of the job state machine.                               *)
LegalTransitions ==
    {<<"pending", "processing">>, <<"processing", "completed">>,
     <<"processing", "failed">>, <<"pending", "failed">>}

(* C20: update_job_status accepts only pending -> processing, processing   *)
(* -> completed, processing -> failed and pending -> failed; a call asking *)
(* for any other transition leaves the job record and all indices          *)
(* unchanged.                                                              *)
C20_OnlyLegalTransitions ==
    [][\A j \in JobIds :
          (/\ Called("update_job_status", j)
           /\ jobs[j] # NoJob
           /\ <<jobs[j].status, last'.ret.to>> \notin LegalTransitions)
              => UNCHANGED store_vars]_vars
(* No increment_ref or decrement_ref call is in flight.                    *)
RefsQuiet == \A p \in Procs : ref_ops.procs[p] = NoRefOp

(* C21: increment_ref and decrement_ref are atomic: after any interleaving *)
(* of m increment_ref and n decrement_ref calls made concurrently by       *)
(* different processes on one upload, without auto_delete, ref_count is    *)
(* the initial value 0 plus m minus n.                                     *)
C21_RefCountAtomic ==
    \A u \in UploadIds :
        (RefsQuiet /\ uploads[u] # NoUpload)
            => uploads[u].ref_count = ref_ops.inc[u] - ref_ops.dec[u]
(* The jobs the worker has taken and finished.                             *)
Finished == {j \in JobIds : w_job # j /\ \E n \in DOMAIN popped : popped[n] = j}

(* The jobs whose record cites upload u.                                   *)
Citing(u) == {j \in JobIds : jobs[j] # NoJob /\ UploadIdOf(jobs[j]) = u}

(* The step that ends the worker's handling of a job.                      *)
ReleaseStep == w_pc = "release" /\ w_pc' = "pop"

(* Any other step of the worker.                                           *)
OtherWorkerStep == w_pc # "release" /\ w_pc' # w_pc

C23_FileIffRecord ==
    \A f \in Paths :
        (uploads_dir[f] # NoFile)
            <=> (\E u \in UploadIds : uploads[u] # NoUpload /\ uploads[u].file_path = f)
(* C24: after create_upload, increment_ref or decrement_ref has returned,  *)
(* the key upload:<id> carries the 3-hour expiry exactly when ref_count is *)
(* 0; in particular it carries it again once ref_count is back from 1 to   *)
(* 0.                                                                      *)
C24_ExpiryIffUnreferenced ==
    \A u \in UploadIds :
        uploads[u] # NoUpload =>
            (upload_ttl[u] = UPLOAD_TTL_UNUSED <=> uploads[u].ref_count = 0)
(* C25: a job in status completed has an output_file and no error; a job   *)
(* in status failed has an error and no output_file.                       *)
C25_TerminalFields ==
    \A j \in JobIds :
        /\ (jobs[j] # NoJob /\ jobs[j].status = "completed")
               => (jobs[j].output_file # None /\ jobs[j].error = NoError)
        /\ (jobs[j] # NoJob /\ jobs[j].status = "failed")
               => (jobs[j].error # NoError /\ jobs[j].output_file = None)
IsTerminal(j) == jobs[j] # NoJob /\ jobs[j].status \in Terminal

Started(jd) == jd # NoJob /\ jd.started_at # None

(* C27: in every reachable state a job record's started_at is non-null     *)
(* exactly when the job's status is or has been processing: a record in    *)
(* processing has started_at, a started_at once set stays set, and         *)
(* started_at is set only by a step that leaves the job in processing.     *)
C27_StartedIffEverProcessing ==
    [][\A j \in JobIds :
          /\ (jobs'[j] # NoJob /\ jobs'[j].status = "processing") => Started(jobs'[j])
          /\ Started(jobs[j]) => Started(jobs'[j])
          /\ (~Started(jobs[j]) /\ Started(jobs'[j])) => jobs'[j].status = "processing"]_vars
(* C28: pending_jobs is exactly the set of job ids whose status is pending *)
(* and processing_jobs exactly the set of those whose status is            *)
(* processing, under any interleaving of create_job, worker steps and      *)
(* cancel_job.                                                             *)
C28_IndicesMatchStatus ==
    \A j \in JobIds :
        /\ (pending_jobs[j] # NotIn) <=> IsPending(j)
        /\ (j \in processing_jobs) <=> (jobs[j] # NoJob /\ jobs[j].status = "processing")
(* Job j is pending and not in job_queue: taken by get_next_job and not    *)
(* yet marked processing.                                                  *)
PoppedNotStarted(j) == IsPending(j) /\ job_queue[j] = NotIn

(* C29: when the worker crashes after get_next_job returned a job and      *)
(* before the job was marked processing, the restarted worker puts the job *)
(* back in job_queue and the job is eventually processed: no job stays     *)
(* pending and absent from job_queue for ever.                             *)
C29_PoppedJobRecovered ==
    \A j \in JobIds : PoppedNotStarted(j) ~> ~PoppedNotStarted(j)

(* C30: when the worker crashes while a job is processing, the startup     *)
(* rewrites the job to failed with error "worker restart" and removes it   *)
(* from processing_jobs: no job stays in processing for ever.              *)
C30_ProcessingJobRecovered ==
    \A j \in JobIds :
        (jobs[j] # NoJob /\ jobs[j].status = "processing")
            ~> (jobs[j].status # "processing" /\ j \notin processing_jobs)
(* The step that writes status completed into the record of job j.         *)
CompletedStep(j) ==
    /\ jobs[j] # NoJob
    /\ jobs[j].status # "completed"
    /\ jobs'[j].status = "completed"

(* C31: the worker moves a job to completed only if, after the             *)
(* media-engine call returned without raising, the output file exists and  *)
(* is non-empty; with a missing or empty output file the job ends failed.  *)
C31_CompletedHasOutput ==
    [][\A j \in JobIds :
          CompletedStep(j) => (results_dir[j] # NoFile /\ results_dir[j] > 0)]_vars
(* The worker's test of the input file of the job in hand.                 *)
CheckInputStep == w_pc = "check_input" /\ w_pc' # "check_input"

(* The worker found the input file of the job in hand missing.             *)
InputMissing == w_job # 0 /\ w_err = InputMissingMsg

(* C32: if a job's input file does not exist when the worker processes it, *)
(* the worker never invokes the media engine for that job, writes no       *)
(* output file, and the job ends in status failed with a non-null error.   *)
C32_MissingInputFails ==
    /\ [][(CheckInputStep /\ uploads_dir[w_data.input_file] = NoFile)
             => (w_pc' = "fail_read" /\ w_err' = InputMissingMsg)]_vars
    /\ [](InputMissing =>
             /\ engine_calls[w_job] = 0
             /\ results_dir[w_job] = NoFile
             /\ w_pc = "release" =>
                    (jobs[w_job].status = "failed" /\ jobs[w_job].error # NoError))

(* The worker has ended a job whose input file was missing: the job is     *)
(* failed with the input-missing error and the engine was never called.    *)
C32_Witness ==
    /\ InputMissing
    /\ w_pc = "release"
    /\ jobs[w_job].status = "failed"
    /\ jobs[w_job].error = InputMissingMsg
    /\ engine_calls[w_job] = 0
(* C33: no retry and no double pop: each job id is returned by             *)
(* get_next_job at most once over the whole execution, also when pops are  *)
(* issued concurrently; a job that has left job_queue, in particular one   *)
(* that ended failed, is never inserted into it again; and the media       *)
(* engine is invoked at most once per job.                                 *)
C33_NoRetryNoDoublePop ==
    /\ [](\A m, n \in DOMAIN popped : m # n => popped[m] # popped[n])
    /\ [](\A j \in JobIds : engine_calls[j] <= 1)
    /\ [][\A j \in JobIds :
             (jobs[j] # NoJob /\ job_queue[j] = NotIn) => job_queue'[j] = NotIn]_vars

(* Both jobs were popped, one by the worker and one by the other client;   *)
(* the worker's job ended failed after one engine call and is not in       *)
(* job_queue.                                                              *)
C33_Witness ==
    /\ Len(popped) = 2
    /\ last.op = "get_next_job" /\ last.ret \in JobIds
    /\ \E j \in JobIds :
        /\ j # last.ret
        /\ jobs[j] # NoJob /\ jobs[j].status = "failed"
        /\ engine_calls[j] = 1
        /\ job_queue[j] = NotIn
        /\ w_pc = "pop"
(* The ids get_next_job has returned to the worker.                        *)
PoppedIds == {popped[n] : n \in DOMAIN popped}

(* C34: graceful shutdown: after a termination signal has set running to   *)
(* false the worker loop eventually exits, and when it has exited every    *)
(* job it popped is completed or failed: none is left in processing and    *)
(* none is left pending outside job_queue.                                 *)
C34_GracefulShutdown ==
    /\ (~running) ~> (w_pc = "stopped")
    /\ [](w_pc = "stopped" =>
             \A j \in PoppedIds : IsTerminal(j) /\ j \notin processing_jobs)

(* The loop has exited after finishing the one job it had popped, while    *)
(* another job is still waiting in job_queue.                              *)
C34_Witness ==
    /\ w_pc = "stopped"
    /\ Len(popped) = 1
    /\ IsTerminal(popped[1])
    /\ \E k \in JobIds : IsPending(k) /\ job_queue[k] # NotIn
(* The sweep returns in this step.                                         *)
SweepEnds == sweep.pc = "loop" /\ sweep'.pc = "idle"

C36_SweepLeavesStore ==
    [][(\E ttl \in {0, TTL_HOURS} : SweepRuns(ttl))
          => UNCHANGED <<store_vars, uploads, upload_ttl, uploads_idx>>]_vars

(* C36 witness: the periodic sweep has just removed the output of a        *)
(* completed job whose record and index entry are still stored, next to a  *)
(* stored upload record.                                                   *)
C36_Witness ==
    /\ last.op = "cleanup_task"
    /\ \E j \in JobIds :
        jobs[j].status = "completed" /\ completed_jobs[j] # NotIn /\ results_dir[j] = NoFile
    /\ \E u \in UploadIds : uploads[u] # NoUpload /\ uploads_idx[u] # NotIn
(* C37: once cancel_job has returned true for job J, the media engine has  *)
(* not been and is not invoked for J, and J is not in processing: neither  *)
(* its record's status nor the processing_jobs index says so.              *)
C37_CancelledNeverRuns ==
    \A j \in JobIds :
        (c_pc = "idle" /\ c_ret = "true" /\ c_job = j)
            => /\ engine_calls[j] = 0
               /\ jobs[j].status # "processing"
               /\ j \notin processing_jobs
(* C38: while a job is pending or processing, neither the periodic sweep   *)
(* of the uploads directory nor the worker's end-of-job release for        *)
(* another job deletes its input file.                                     *)
C38_InputsSurvive ==
    [][\A j \in JobIds :
          (/\ jobs[j].status \in {"pending", "processing"}
           /\ uploads_dir[jobs[j].input_file] # NoFile
           /\ \/ Called("cleanup_task", TTL_HOURS)
              \/ ReleaseStep /\ w_job # j)
              => uploads_dir'[jobs[j].input_file] # NoFile]_vars
(* C39: every job id in job_queue has a stored record whose status is      *)
(* pending.                                                                *)
C39_QueuedIsPending ==
    \A j \in JobIds : job_queue[j] # NotIn => (jobs[j] # NoJob /\ jobs[j].status = "pending")

(* C39 witness: a job created command by command waits in job_queue while  *)
(* cancel_job has read its record and not yet removed it, and another job  *)
(* has been popped and marked by the worker.                               *)
C39_Witness ==
    /\ \E j \in JobIds : job_queue[j] # NotIn /\ c_pc = "zrem" /\ c_job = j
    /\ \E k \in JobIds : jobs[k].status \in {"processing", "completed", "failed"}
=============================================================================
